---- MODULE Spec2Model ----
(***************************************************************************)
(* Price-history engine of koreafhr: the snapshot store and the JSONL log  *)
(* of src/storage.py and the compare/persist part of run() in src/main.py. *)
(*                                                                         *)
(* Abstractions: an observation keeps code and price (name, earliest,     *)
(* credit and url never decide a comparison); a date is a day number; the  *)
(* log entry's timestamp, which nothing reads, is left out.                *)
(***************************************************************************)
EXTENDS Integers, Sequences, FiniteSets, TLC

\* ---------------------------------------------------------------- bounds
MaxPrice == 2      \* prices are 1..MaxPrice
MaxDay == 2        \* dates are 1..MaxDay
MaxLog == 2        \* appends to the log store on its own (SpecLog)
MaxRuns == 3       \* runs of the whole program (Spec, SpecRuns)
MaxCards == 2      \* cards one scrape can show
MaxLines == 3      \* lines of a log file as found (SpecRead)
MaxPairRuns == 3   \* earlier runs over the two directories together (SpecPair)
MaxDeliverRuns == 1 \* runs that reach the stores in the delivery machine (SpecDeliver)
MaxPayload == 12001 \* longest report text that is split (SpecChunk)
MaxItems == 2      \* items of one report section (SpecReport)

\* ------------------------------------------------------ program constants
DefaultOldPrice == 999999
NoDate == 0
NoDays == -1
ChunkSize == 4000

Codes == {"x", "y"}
Prices == 1..MaxPrice
Days == 1..MaxDay

VARIABLES today, history_file, log_file, pc, new_history, hotels_snapshot, msgs,
          logs_read, history_fileB, log_fileB, msgsB,
          target, scraped, final_msg, final_len, calls, chunks,
          days_arg, hist_read, pcB, new_historyB, hotels_snapshotB

\* the notifier's side of a run, the arguments of the readers, a second process
ext == <<target, scraped, final_msg, final_len, calls, chunks,
         days_arg, hist_read, pcB, new_historyB, hotels_snapshotB>>

vars == <<today, history_file, log_file, pc, new_history, hotels_snapshot, msgs,
          logs_read, history_fileB, log_fileB, msgsB, ext>>

Min(a, b) == IF a < b THEN a ELSE b

\* a dict with no keys
EmptyDict == [c \in {} |-> 0]

\* ------------------------------------------------------------------ JSON
\* A line (or document) of a file: parseable JSON holding doc, a blank line,
\* or a torn write that no parser accepts.
json_dumps(doc) == [kind |-> "json", doc |-> doc]

json_parses(line) == line.kind = "json"

json_loads(line) == line.doc

is_blank(line) == line.kind = "blank"

\* ------------------------------------------------------------ storage.py
MissingFile == [kind |-> "missing", doc |-> EmptyDict]

load_history(file) ==
    IF file.kind = "missing" THEN EmptyDict
    ELSE IF json_parses(file) THEN json_loads(file)
    ELSE EmptyDict

save_history(data) == json_dumps(data)

log_entry(hotels, day) == [date |-> day, hotels |-> hotels]

append_log_truncating(file, hotels, day) == <<json_dumps(log_entry(hotels, day))>>

append_log_stale_date(file, hotels, day) ==
    Append(file, json_dumps(log_entry(hotels, IF day > 1 THEN day - 1 ELSE day + 1)))

append_log(file, hotels, day) == Append(file, json_dumps(log_entry(hotels, day)))

RECURSIVE parse_lines(_, _)
\* the loop of load_logs; the result is <<ok, logs>>: one json.loads that
\* raises leaves the loop through the except clause
parse_lines(file, i) ==
    IF i > Len(file) THEN <<TRUE, <<>>>>
    ELSE IF is_blank(file[i]) THEN parse_lines(file, i + 1)
    ELSE IF ~json_parses(file[i]) THEN <<FALSE, <<>>>>
    ELSE LET rest == parse_lines(file, i + 1)
         IN  <<rest[1], <<json_loads(file[i])>> \o rest[2]>>

\* logs[-days:] of Python
last_slice(logs, days) ==
    IF days = 0 \/ days >= Len(logs) THEN logs
    ELSE SubSeq(logs, Len(logs) - days + 1, Len(logs))

load_logs(file, days) ==
    LET r == parse_lines(file, 1)
    IN  IF ~r[1] THEN <<>>
        ELSE IF days # NoDays THEN last_slice(r[2], days)
        ELSE r[2]

skip_never(log_date, exclude_date) == FALSE

is_excluded(log_date, exclude_date) ==
    exclude_date # NoDate /\ log_date = exclude_date

is_better_or_equal(p, best) == best = <<>> \/ p <= best[1].price

is_better(p, best) == best = <<>> \/ p < best[1].price

RECURSIVE first_hotel(_, _, _)
\* the inner loop with its break: the first observation of the code, if any
first_hotel(hotels, j, hotel_code) ==
    IF j > Len(hotels) THEN <<>>
    ELSE IF hotels[j].code = hotel_code THEN <<hotels[j]>>
    ELSE first_hotel(hotels, j + 1, hotel_code)

RECURSIVE low_scan(_, _, _, _, _)
low_scan(logs, i, hotel_code, exclude_date, best) ==
    IF i > Len(logs) THEN best
    ELSE IF is_excluded(logs[i].date, exclude_date)
         THEN low_scan(logs, i + 1, hotel_code, exclude_date, best)
    ELSE LET h == first_hotel(logs[i].hotels, 1, hotel_code)
         IN  IF h # <<>> /\ is_better(h[1].price, best)
             THEN low_scan(logs, i + 1, hotel_code, exclude_date,
                           <<[price |-> h[1].price, date |-> logs[i].date]>>)
             ELSE low_scan(logs, i + 1, hotel_code, exclude_date, best)

\* None is <<>>, a result is <<[price, date]>>
get_all_time_low(file, hotel_code, exclude_date) ==
    low_scan(load_logs(file, NoDays), 1, hotel_code, exclude_date, <<>>)

\* --------------------------------------------------------------- main.py
Card == [code : Codes, price : Prices]

RECURSIVE seqs_upto(_, _)
seqs_upto(S, n) ==
    IF n = 0 THEN {<<>>}
    ELSE LET shorter == seqs_upto(S, n - 1)
         IN  shorter \cup {Append(s, e) : s \in shorter, e \in S}

\* what the listing pages can show in one scrape, in page order
RawCards == seqs_upto(Card, MaxCards)

has_code(all_hotels, code) == \E k \in 1..Len(all_hotels) : all_hotels[k].code = code

RECURSIVE fetch_loop_keep_all(_, _, _)
fetch_loop_keep_all(cards, i, all_hotels) ==
    IF i > Len(cards) THEN all_hotels
    ELSE fetch_loop_keep_all(cards, i + 1, Append(all_hotels, cards[i]))

RECURSIVE fetch_loop(_, _, _)
fetch_loop(cards, i, all_hotels) ==
    IF i > Len(cards) THEN all_hotels
    ELSE IF has_code(all_hotels, cards[i].code)
         THEN fetch_loop(cards, i + 1, all_hotels)
         ELSE fetch_loop(cards, i + 1, Append(all_hotels, cards[i]))

\* the card loop of fetch_maxfhr: a card whose code is already kept is dropped
fetch_maxfhr(cards) == fetch_loop(cards, 1, <<>>)

dict_set(d, k, v) == [c \in DOMAIN d \cup {k} |-> IF c = k THEN v ELSE d[c]]

NoMsgs == [drop |-> <<>>, new |-> <<>>, rise |-> <<>>, same |-> <<>>]

is_new(prev_history, code) == code \notin DOMAIN prev_history

old_price(prev_history, code) ==
    IF code \in DOMAIN prev_history THEN prev_history[code].price ELSE DefaultOldPrice

prev_low(prev_history, code, price) ==
    IF code \in DOMAIN prev_history THEN prev_history[code].all_time_low ELSE price

all_time_low(prev_history, code, price) == Min(price, prev_low(prev_history, code, price))

\* the if/elif chain that picks the message list of a hotel
section_of(prev_history, code, price) ==
    IF price < old_price(prev_history, code) THEN "drop"
    ELSE IF price > old_price(prev_history, code) THEN "rise"
    ELSE IF is_new(prev_history, code) THEN "new"
    ELSE "same"

\* the rendered item: what the message text says about the comparison
msg_of(prev_history, code, price) ==
    [code |-> code,
     price |-> price,
     old_price |-> old_price(prev_history, code),
     record_low |-> /\ price < old_price(prev_history, code)
                    /\ price <= all_time_low(prev_history, code, price)]

add_msg(m, prev_history, code, price) ==
    LET s == section_of(prev_history, code, price)
    IN  [m EXCEPT ![s] = Append(m[s], msg_of(prev_history, code, price))]

snapshot_entry(prev_history, code, price, day) ==
    [price |-> price,
     all_time_low |-> all_time_low(prev_history, code, price),
     updated |-> day]

RECURSIVE compare_loop(_, _, _, _, _)
\* the for loop of run over final_list; acc is (new_history, hotels_snapshot, msgs)
compare_loop(final_list, i, prev_history, day, acc) ==
    IF i > Len(final_list) THEN acc
    ELSE LET mf == final_list[i]
         IN  compare_loop(final_list, i + 1, prev_history, day,
                 [new_history |-> dict_set(acc.new_history, mf.code,
                                      snapshot_entry(prev_history, mf.code, mf.price, day)),
                  hotels_snapshot |-> Append(acc.hotels_snapshot,
                                      [code |-> mf.code, price |-> mf.price]),
                  msgs |-> add_msg(acc.msgs, prev_history, mf.code, mf.price)])

\* match_hotels keeps every MaxFHR hotel, in order; the AMEX side only adds a promo text
compare(maxfhr_data, prev_history, day) ==
    compare_loop(maxfhr_data, 1, prev_history, day,
        [new_history |-> EmptyDict, hotels_snapshot |-> <<>>, msgs |-> NoMsgs])

\* ------------------------------------------------------------ state machine
TypeOK ==
    /\ today \in Days
    /\ pc \in {"idle", "save", "append", "send", "store", "unread", "read", "pair", "observed",
              "d_idle", "d_save", "d_append", "d_assemble", "d_send", "d_done",
              "unsplit", "split", "unassembled", "assembled",
              "s_idle", "s_cut", "days_read", "t_idle", "t_save", "t_open", "t_append", "t_done"}

InitCommon ==
    /\ today = 1
    /\ new_history = EmptyDict
    /\ hotels_snapshot = <<>>
    /\ msgs = NoMsgs
    /\ logs_read = <<>>
    /\ history_fileB = MissingFile
    /\ log_fileB = <<>>
    /\ msgsB = NoMsgs
    /\ target = "personal"
    /\ scraped = <<>>
    /\ final_msg = <<>>
    /\ final_len = 0
    /\ calls = <<>>
    /\ chunks = <<>>
    /\ days_arg = NoDays
    /\ hist_read = <<>>
    /\ pcB = "off"
    /\ new_historyB = EmptyDict
    /\ hotels_snapshotB = <<>>

Init ==
    /\ InitCommon
    /\ pc = "idle"
    /\ history_file = MissingFile
    /\ log_file = <<>>

\* midnight passes
Tick ==
    /\ today < MaxDay
    /\ today' = today + 1
    /\ UNCHANGED <<history_file, log_file, pc, new_history, hotels_snapshot, msgs,
                   logs_read, history_fileB, log_fileB, msgsB, ext>>

\* run() from the scrape to the end of the comparison loop
Compare(cards) ==
    /\ pc = "idle"
    /\ Len(log_file) < MaxRuns
    /\ fetch_maxfhr(cards) # <<>>
    /\ LET r == compare(fetch_maxfhr(cards), load_history(history_file), today)
       IN  /\ new_history' = r.new_history
           /\ hotels_snapshot' = r.hotels_snapshot
           /\ msgs' = r.msgs
    /\ pc' = "save"
    /\ UNCHANGED <<today, history_file, log_file, logs_read, history_fileB, log_fileB, msgsB, ext>>

SaveHistory ==
    /\ pc = "save"
    /\ history_file' = save_history(new_history)
    /\ pc' = "append"
    /\ UNCHANGED <<today, log_file, new_history, hotels_snapshot, msgs,
                   logs_read, history_fileB, log_fileB, msgsB, ext>>

AppendLog ==
    /\ pc = "append"
    /\ log_file' = append_log(log_file, hotels_snapshot, today)
    /\ pc' = "send"
    /\ UNCHANGED <<today, history_file, new_history, hotels_snapshot, msgs,
                   logs_read, history_fileB, log_fileB, msgsB, ext>>

\* the report goes out and the process ends
Send ==
    /\ pc = "send"
    /\ pc' = "idle"
    /\ new_history' = EmptyDict
    /\ hotels_snapshot' = <<>>
    /\ msgs' = NoMsgs
    /\ UNCHANGED <<today, history_file, log_file, logs_read, history_fileB, log_fileB, msgsB, ext>>

\* the process is killed between two steps of run()
Crash ==
    /\ pc \in {"save", "append", "send"}
    /\ pc' = "idle"
    /\ new_history' = EmptyDict
    /\ hotels_snapshot' = <<>>
    /\ msgs' = NoMsgs
    /\ UNCHANGED <<today, history_file, log_file, logs_read, history_fileB, log_fileB, msgsB, ext>>

Next ==
    \/ Tick
    \/ \E cards \in RawCards : Compare(cards)
    \/ SaveHistory
    \/ AppendLog
    \/ Send
    \/ Crash

Spec == Init /\ [][Next]_vars

\* the same program with no process killed: every run that starts completes
NextRuns ==
    \/ Tick
    \/ \E cards \in RawCards : Compare(cards)
    \/ SaveHistory
    \/ AppendLog
    \/ Send

SpecRuns == Init /\ [][NextRuns]_vars

\* ------------------------------------------------- the log store on its own
\* every list of observations a scrape can hand to append_log
HotelLists == {fetch_maxfhr(cards) : cards \in RawCards} \ {<<>>}

InitLog ==
    /\ InitCommon
    /\ pc = "store"
    /\ history_file = MissingFile
    /\ log_file = <<>>

StoreAppend(hotels) ==
    /\ pc = "store"
    /\ Len(log_file) < MaxLog
    /\ log_file' = append_log(log_file, hotels, today)
    /\ UNCHANGED <<today, history_file, pc, new_history, hotels_snapshot, msgs,
                   logs_read, history_fileB, log_fileB, msgsB, ext>>

NextLog ==
    \/ Tick
    \/ \E hotels \in HotelLists : StoreAppend(hotels)

SpecLog == InitLog /\ [][NextLog]_vars

\* ------------------------------------------- reading a log file as found
BlankLine == [kind |-> "blank", doc |-> log_entry(<<>>, NoDate)]

torn(line) == [kind |-> "torn", doc |-> line.doc]

JsonLines == {json_dumps(log_entry(<<c>>, d)) : c \in Card, d \in Days}

\* a file as a reader may find it: whole lines, blank lines and torn writes
FoundLines == JsonLines \cup {torn(l) : l \in JsonLines} \cup {BlankLine}

InitRead ==
    /\ InitCommon
    /\ pc = "unread"
    /\ history_file = MissingFile
    /\ log_file \in seqs_upto(FoundLines, MaxLines)

ReadLogs ==
    /\ pc = "unread"
    /\ logs_read' = load_logs(log_file, NoDays)
    /\ pc' = "read"
    /\ UNCHANGED <<today, history_file, log_file, new_history, hotels_snapshot, msgs,
                   history_fileB, log_fileB, msgsB, ext>>

NextRead == ReadLogs

SpecRead == InitRead /\ [][NextRead]_vars

\* ----------------------------------- two data directories, the same program
\* one whole run() on a data directory
run(hfile, lfile, cards, day) ==
    LET r == compare(fetch_maxfhr(cards), load_history(hfile), day)
    IN  [history_file |-> save_history(r.new_history),
         log_file |-> append_log(lfile, r.hotels_snapshot, day),
         msgs |-> r.msgs]

InitPair ==
    /\ InitCommon
    /\ pc = "pair"
    /\ history_file = MissingFile
    /\ log_file = <<>>

PairRunA(cards) ==
    /\ pc = "pair"
    /\ Len(log_file) + Len(log_fileB) < MaxPairRuns
    /\ fetch_maxfhr(cards) # <<>>
    /\ LET r == run(history_file, log_file, cards, today)
       IN  /\ history_file' = r.history_file
           /\ log_file' = r.log_file
    /\ UNCHANGED <<today, pc, new_history, hotels_snapshot, msgs,
                   logs_read, history_fileB, log_fileB, msgsB, ext>>

PairRunB(cards) ==
    /\ pc = "pair"
    /\ Len(log_file) + Len(log_fileB) < MaxPairRuns
    /\ fetch_maxfhr(cards) # <<>>
    /\ LET r == run(history_fileB, log_fileB, cards, today)
       IN  /\ history_fileB' = r.history_file
           /\ log_fileB' = r.log_file
    /\ UNCHANGED <<today, pc, new_history, hotels_snapshot, msgs,
                   logs_read, history_file, log_file, msgsB, ext>>

\* both directories see the same scrape on the same day: run() in each, from
\* the scrape to the end of the comparison loop
PairObserve(cards) ==
    /\ pc = "pair"
    /\ fetch_maxfhr(cards) # <<>>
    /\ LET a == compare(fetch_maxfhr(cards), load_history(history_file), today)
           b == compare(fetch_maxfhr(cards), load_history(history_fileB), today)
       IN  /\ new_history' = a.new_history
           /\ hotels_snapshot' = a.hotels_snapshot
           /\ msgs' = a.msgs
           /\ msgsB' = b.msgs
    /\ pc' = "observed"
    /\ UNCHANGED <<today, history_file, log_file, logs_read, history_fileB, log_fileB, ext>>

NextPair ==
    \/ Tick
    \/ \E cards \in RawCards : PairRunA(cards)
    \/ \E cards \in RawCards : PairRunB(cards)
    \/ \E cards \in RawCards : PairObserve(cards)

SpecPair == InitPair /\ [][NextPair]_vars

\* ------------------------------------------------- report and delivery
\* TARGET after strip().lower(); every value but "channel" selects the
\* personal chat
Targets == {"channel", "personal", "other"}

chat_id(t) == IF t = "channel" THEN "channel_id" ELSE "personal_id"

notice_always(t) == TRUE

\* the failure notice of an empty scrape is sent unless the target is the channel
notice_wanted(t) == t # "channel"

Header == [title |-> "header", count |-> 0, items |-> <<>>]

build_section_always(title, items) ==
    <<[title |-> title, count |-> Len(items), items |-> items]>>

\* a section is its title line with the item count, then the items; an empty
\* item list gives the empty string
build_section(title, items) ==
    IF items = <<>> THEN <<>>
    ELSE <<[title |-> title, count |-> Len(items), items |-> items]>>

\* final_msg: the header, then the four sections in the order the code adds them
assemble(m) ==
    <<Header>> \o build_section("drop", m.drop) \o build_section("new", m.new)
               \o build_section("rise", m.rise) \o build_section("same", m.same)

RECURSIVE range_slices_drop_tail(_, _, _)
range_slices_drop_tail(i, n, size) ==
    IF i + size > n THEN <<>>
    ELSE <<[from |-> i, to |-> i + size]>> \o range_slices_drop_tail(i + size, n, size)

RECURSIVE range_slices(_, _, _)
\* for i in range(0, n, size): final_msg[i:i + size], a slice as [from, to)
range_slices(i, n, size) ==
    IF i >= n THEN <<>>
    ELSE <<[from |-> i, to |-> Min(i + size, n)]>> \o range_slices(i + size, n, size)

\* the texts handed to send_message for a report of n characters
chunks_of(n) ==
    IF n > ChunkSize THEN range_slices(0, n, ChunkSize)
    ELSE <<[from |-> 0, to |-> n]>>

\* lengths a rendered report can have: one, two and three messages
ReportLengths == {ChunkSize, ChunkSize + 1, 2 * ChunkSize + 1}

send_first == "d_assemble"

\* where run() goes after the comparison loop: step 4, the two writes
after_compare == "d_save"

InitDeliver ==
    /\ InitCommon
    /\ pc = "d_idle"
    /\ history_file = MissingFile
    /\ log_file = <<>>

ClearRun ==
    /\ new_history' = EmptyDict
    /\ hotels_snapshot' = <<>>
    /\ msgs' = NoMsgs
    /\ target' = "personal"
    /\ scraped' = <<>>
    /\ final_msg' = <<>>
    /\ final_len' = 0
    /\ calls' = <<>>

DAbortFallsThrough(t, ok) ==
    /\ pc = "d_idle"
    /\ target' = t
    /\ scraped' = <<>>
    /\ calls' = IF notice_wanted(t)
                THEN <<[to |-> chat_id(t), kind |-> "notice", part |-> [from |-> 0, to |-> 0],
                        ok |-> ok]>>
                ELSE <<>>
    /\ pc' = "d_save"
    /\ UNCHANGED <<today, history_file, log_file, new_history, hotels_snapshot, msgs,
                   logs_read, history_fileB, log_fileB, msgsB,
                   final_msg, final_len, chunks, days_arg, hist_read,
                   pcB, new_historyB, hotels_snapshotB>>

\* run() when fetch_maxfhr returns []: the notice, then return
DAbort(t, ok) ==
    /\ pc = "d_idle"
    /\ target' = t
    /\ scraped' = <<>>
    /\ calls' = IF notice_wanted(t)
                THEN <<[to |-> chat_id(t), kind |-> "notice", part |-> [from |-> 0, to |-> 0],
                        ok |-> ok]>>
                ELSE <<>>
    /\ pc' = "d_done"
    /\ UNCHANGED <<today, history_file, log_file, new_history, hotels_snapshot, msgs,
                   logs_read, history_fileB, log_fileB, msgsB,
                   final_msg, final_len, chunks, days_arg, hist_read,
                   pcB, new_historyB, hotels_snapshotB>>

\* run() from the scrape to the end of the comparison loop
DCompare(t, cards) ==
    /\ pc = "d_idle"
    /\ Len(log_file) < MaxDeliverRuns
    /\ fetch_maxfhr(cards) # <<>>
    /\ target' = t
    /\ scraped' = cards
    /\ LET r == compare(fetch_maxfhr(cards), load_history(history_file), today)
       IN  /\ new_history' = r.new_history
           /\ hotels_snapshot' = r.hotels_snapshot
           /\ msgs' = r.msgs
    /\ pc' = after_compare
    /\ UNCHANGED <<today, history_file, log_file, logs_read, history_fileB, log_fileB, msgsB,
                   final_msg, final_len, calls, chunks, days_arg, hist_read,
                   pcB, new_historyB, hotels_snapshotB>>

DSave ==
    /\ pc = "d_save"
    /\ history_file' = save_history(new_history)
    /\ pc' = "d_append"
    /\ UNCHANGED <<today, log_file, new_history, hotels_snapshot, msgs,
                   logs_read, history_fileB, log_fileB, msgsB, ext>>

DAppend ==
    /\ pc = "d_append"
    /\ log_file' = append_log(log_file, hotels_snapshot, today)
    /\ pc' = "d_assemble"
    /\ UNCHANGED <<today, history_file, new_history, hotels_snapshot, msgs,
                   logs_read, history_fileB, log_fileB, msgsB, ext>>

\* final_msg is put together; its length in characters depends on the names
\* and promo texts, which the model leaves out
DAssemble(n) ==
    /\ pc = "d_assemble"
    /\ final_msg' = assemble(msgs)
    /\ final_len' = n
    /\ pc' = "d_send"
    /\ UNCHANGED <<today, history_file, log_file, new_history, hotels_snapshot, msgs,
                   logs_read, history_fileB, log_fileB, msgsB,
                   target, scraped, calls, chunks, days_arg, hist_read,
                   pcB, new_historyB, hotels_snapshotB>>

\* one await bot.send_message of the report; when it raises, the except
\* clause of run() logs the error and the run ends
DSendChunk(ok) ==
    /\ pc = "d_send"
    /\ LET i == Len(calls) + 1
           parts == chunks_of(final_len)
       IN  /\ calls' = Append(calls, [to |-> chat_id(target), kind |-> "report",
                                      part |-> parts[i], ok |-> ok])
           /\ pc' = IF ok /\ i < Len(parts) THEN "d_send" ELSE "d_done"
    /\ UNCHANGED <<today, history_file, log_file, new_history, hotels_snapshot, msgs,
                   logs_read, history_fileB, log_fileB, msgsB,
                   target, scraped, final_msg, final_len, chunks, days_arg, hist_read,
                   pcB, new_historyB, hotels_snapshotB>>

\* the process ends
DExit ==
    /\ pc = "d_done"
    /\ pc' = "d_idle"
    /\ ClearRun
    /\ UNCHANGED <<today, history_file, log_file, logs_read, history_fileB, log_fileB, msgsB,
                   chunks, days_arg, hist_read, pcB, new_historyB, hotels_snapshotB>>

NextDeliver ==
    \/ \E t \in Targets, ok \in BOOLEAN : DAbort(t, ok)
    \/ \E t \in Targets, cards \in RawCards : DCompare(t, cards)
    \/ DSave
    \/ DAppend
    \/ \E n \in ReportLengths : DAssemble(n)
    \/ \E ok \in BOOLEAN : DSendChunk(ok)
    \/ DExit

SpecDeliver == InitDeliver /\ [][NextDeliver]_vars

\* ------------------------------------------------ splitting on its own
InitChunk ==
    /\ InitCommon
    /\ pc = "unsplit"
    /\ history_file = MissingFile
    /\ log_file = <<>>

\* the sending part of run() for a report of n characters
Split(n) ==
    /\ pc = "unsplit"
    /\ final_len' = n
    /\ chunks' = chunks_of(n)
    /\ pc' = "split"
    /\ UNCHANGED <<today, history_file, log_file, new_history, hotels_snapshot, msgs,
                   logs_read, history_fileB, log_fileB, msgsB,
                   target, scraped, final_msg, calls, days_arg, hist_read,
                   pcB, new_historyB, hotels_snapshotB>>

NextChunk == \E n \in 1..MaxPayload : Split(n)

SpecChunk == InitChunk /\ [][NextChunk]_vars

\* ----------------------------------------------- assembling on its own
ItemLists == seqs_upto({"a", "b"}, MaxItems)

InitReport ==
    /\ InitCommon
    /\ pc = "unassembled"
    /\ history_file = MissingFile
    /\ log_file = <<>>

\* one message list as the comparison loop may leave it
Collect(section, items) ==
    /\ pc = "unassembled"
    /\ msgs[section] = <<>>
    /\ msgs' = [msgs EXCEPT ![section] = items]
    /\ UNCHANGED <<today, history_file, log_file, pc, new_history, hotels_snapshot,
                   logs_read, history_fileB, log_fileB, msgsB, ext>>

Assemble ==
    /\ pc = "unassembled"
    /\ final_msg' = assemble(msgs)
    /\ pc' = "assembled"
    /\ UNCHANGED <<today, history_file, log_file, new_history, hotels_snapshot, msgs,
                   logs_read, history_fileB, log_fileB, msgsB,
                   target, scraped, final_len, calls, chunks, days_arg, hist_read,
                   pcB, new_historyB, hotels_snapshotB>>

NextReport ==
    \/ \E section \in {"drop", "new", "rise", "same"}, items \in ItemLists :
           Collect(section, items)
    \/ Assemble

SpecReport == InitReport /\ [][NextReport]_vars

\* ------------------------------------------- the snapshot file on its own
\* the file right after open(history_file, 'w'): it exists and is empty
EmptyFile == [kind |-> "empty", doc |-> EmptyDict]

\* the entries run() can put into new_history
SnapshotEntries ==
    {e \in [price : Prices, all_time_low : Prices, updated : Days] : e.all_time_low <= e.price}

\* the mappings run() can hand to save_history
Snapshots ==
    UNION {[cs -> SnapshotEntries] : cs \in (SUBSET Codes) \ {{}}}

\* what an interrupted save_history(data) leaves on disk: the file was
\* truncated by open, and json.dump had written nothing or a part of the text
interrupted_saves(data) == {EmptyFile, torn(json_dumps(data))}

InitSave ==
    /\ InitCommon
    /\ pc = "s_idle"
    /\ history_file = MissingFile
    /\ log_file = <<>>

\* storage.save_history(new_history) that runs to the end
SaveWhole(data) ==
    /\ pc \in {"s_idle", "s_cut"}
    /\ history_file' = save_history(data)
    /\ pc' = "s_idle"
    /\ new_history' = data
    /\ UNCHANGED <<today, log_file, hotels_snapshot, msgs,
                   logs_read, history_fileB, log_fileB, msgsB, ext>>

\* storage.save_history(new_history) cut short after open: the process is killed, or a
\* write raises and the except clause prints the error
SaveInterrupted(data) ==
    /\ pc \in {"s_idle", "s_cut"}
    /\ history_file' \in interrupted_saves(data)
    /\ pc' = "s_cut"
    /\ new_history' = data
    /\ UNCHANGED <<today, log_file, hotels_snapshot, msgs,
                   logs_read, history_fileB, log_fileB, msgsB, ext>>

NextSave ==
    \/ \E data \in Snapshots : SaveWhole(data)
    \/ \E data \in Snapshots : SaveInterrupted(data)

SpecSave == InitSave /\ [][NextSave]_vars

\* --------------------------------------------------- the readers' windows
RECURSIVE history_scan(_, _, _)
\* the loop of get_price_history_for_hotel: the first observation of the code
\* in every entry that has one
history_scan(logs, i, hotel_code) ==
    IF i > Len(logs) THEN <<>>
    ELSE LET h == first_hotel(logs[i].hotels, 1, hotel_code)
             rec == IF h = <<>> THEN <<>>
                    ELSE <<[date |-> logs[i].date, price |-> h[1].price]>>
         IN  rec \o history_scan(logs, i + 1, hotel_code)

get_price_history_for_hotel(file, hotel_code, days) ==
    LET history == history_scan(load_logs(file, NoDays), 1, hotel_code)
    IN  IF days # NoDays /\ Len(history) > days THEN last_slice(history, days)
        ELSE history

\* the values of days a caller passes: None and the integers from 0 on
DayArgs == {NoDays} \cup (0..(MaxLog + 1))

\* load_logs(days) and get_price_history_for_hotel(code, days) of every code
QueryDays(days) ==
    /\ pc = "store"
    /\ days_arg' = days
    /\ logs_read' = load_logs(log_file, days)
    /\ hist_read' = [c \in Codes |-> get_price_history_for_hotel(log_file, c, days)]
    /\ pc' = "days_read"
    /\ UNCHANGED <<today, history_file, log_file, new_history, hotels_snapshot, msgs,
                   history_fileB, log_fileB, msgsB,
                   target, scraped, final_msg, final_len, calls, chunks,
                   pcB, new_historyB, hotels_snapshotB>>

NextDays ==
    \/ Tick
    \/ \E hotels \in HotelLists : StoreAppend(hotels)
    \/ \E days \in DayArgs : QueryDays(days)

SpecDays == InitLog /\ [][NextDays]_vars

\* ------------------------------------------ two runs in one data directory
\* the length of the text json.dump writes grows with the number of hotels
doc_size(doc) == Cardinality(DOMAIN doc)

\* the file after a process that opened it with 'w' writes data at offset 0
\* and closes: text the other process wrote meanwhile stays behind the new
\* text where it is longer
write_at_start(file, data) ==
    IF file.kind = "json" /\ doc_size(file.doc) > doc_size(data)
    THEN torn(json_dumps(data))
    ELSE json_dumps(data)

InitTwo ==
    /\ today = 1
    /\ history_file = MissingFile
    /\ log_file = <<>>
    /\ pc = "t_idle"
    /\ pcB = "t_idle"
    /\ new_history = EmptyDict
    /\ hotels_snapshot = <<>>
    /\ msgs = NoMsgs
    /\ new_historyB = EmptyDict
    /\ hotels_snapshotB = <<>>
    /\ msgsB = NoMsgs
    /\ logs_read = <<>>
    /\ history_fileB = MissingFile
    /\ log_fileB = <<>>
    /\ target = "personal"
    /\ scraped = <<>>
    /\ final_msg = <<>>
    /\ final_len = 0
    /\ calls = <<>>
    /\ chunks = <<>>
    /\ days_arg = NoDays
    /\ hist_read = <<>>

\* what neither process of SpecTwo touches
two_rest == <<today, logs_read, history_fileB, log_fileB,
              target, scraped, final_msg, final_len, calls, chunks, days_arg, hist_read>>

\* first process: scrape, load_history, comparison loop
TCompareA(cards) ==
    /\ pc = "t_idle"
    /\ fetch_maxfhr(cards) # <<>>
    /\ LET r == compare(fetch_maxfhr(cards), load_history(history_file), today)
       IN  /\ new_history' = r.new_history
           /\ hotels_snapshot' = r.hotels_snapshot
           /\ msgs' = r.msgs
    /\ pc' = "t_save"
    /\ UNCHANGED <<history_file, log_file, pcB, new_historyB, hotels_snapshotB, msgsB, two_rest>>

\* first process: open(history_file, 'w') of save_history
TOpenA ==
    /\ pc = "t_save"
    /\ history_file' = EmptyFile
    /\ pc' = "t_open"
    /\ UNCHANGED <<log_file, new_history, hotels_snapshot, msgs,
                   pcB, new_historyB, hotels_snapshotB, msgsB, two_rest>>

\* first process: json.dump and close of save_history
TWriteA ==
    /\ pc = "t_open"
    /\ history_file' = write_at_start(history_file, new_history)
    /\ pc' = "t_append"
    /\ UNCHANGED <<log_file, new_history, hotels_snapshot, msgs,
                   pcB, new_historyB, hotels_snapshotB, msgsB, two_rest>>

\* first process: append_log
TAppendA ==
    /\ pc = "t_append"
    /\ log_file' = append_log(log_file, hotels_snapshot, today)
    /\ pc' = "t_done"
    /\ UNCHANGED <<history_file, new_history, hotels_snapshot, msgs,
                   pcB, new_historyB, hotels_snapshotB, msgsB, two_rest>>

\* second process: scrape, load_history, comparison loop
TCompareB(cards) ==
    /\ pcB = "t_idle"
    /\ fetch_maxfhr(cards) # <<>>
    /\ LET r == compare(fetch_maxfhr(cards), load_history(history_file), today)
       IN  /\ new_historyB' = r.new_history
           /\ hotels_snapshotB' = r.hotels_snapshot
           /\ msgsB' = r.msgs
    /\ pcB' = "t_save"
    /\ UNCHANGED <<history_file, log_file, pc, new_history, hotels_snapshot, msgs, two_rest>>

\* second process: open(history_file, 'w') of save_history
TOpenB ==
    /\ pcB = "t_save"
    /\ history_file' = EmptyFile
    /\ pcB' = "t_open"
    /\ UNCHANGED <<log_file, pc, new_history, hotels_snapshot, msgs,
                   new_historyB, hotels_snapshotB, msgsB, two_rest>>

\* second process: json.dump and close of save_history
TWriteB ==
    /\ pcB = "t_open"
    /\ history_file' = write_at_start(history_file, new_historyB)
    /\ pcB' = "t_append"
    /\ UNCHANGED <<log_file, pc, new_history, hotels_snapshot, msgs,
                   new_historyB, hotels_snapshotB, msgsB, two_rest>>

\* second process: append_log
TAppendB ==
    /\ pcB = "t_append"
    /\ log_file' = append_log(log_file, hotels_snapshotB, today)
    /\ pcB' = "t_done"
    /\ UNCHANGED <<history_file, pc, new_history, hotels_snapshot, msgs,
                   new_historyB, hotels_snapshotB, msgsB, two_rest>>

NextTwo ==
    \/ \E cards \in RawCards : TCompareA(cards)
    \/ TOpenA
    \/ TWriteA
    \/ TAppendA
    \/ \E cards \in RawCards : TCompareB(cards)
    \/ TOpenB
    \/ TWriteB
    \/ TAppendB

SpecTwo == InitTwo /\ [][NextTwo]_vars

\* ================================================================= claims
in_section(m, s, code) == \E k \in 1..Len(m[s]) : m[s][k].code = code

sections_of(m, code) == {s \in {"drop", "new", "rise", "same"} : in_section(m, s, code)}

flagged_record_low(m, code) ==
    \E s \in {"drop", "new", "rise", "same"} :
        \E k \in 1..Len(m[s]) : m[s][k].code = code /\ m[s][k].record_low

\* the price drop a drop item reports (old price minus today's price)
reported_delta(m, code) ==
    {m["drop"][k].old_price - m["drop"][k].price :
        k \in {n \in 1..Len(m["drop"]) : m["drop"][n].code = code}}

observed_price(hotels, code) ==
    hotels[CHOOSE j \in 1..Len(hotels) : hotels[j].code = code].price

\* the date the running comparison stamped on its snapshot entries
run_date == new_history[hotels_snapshot[1].code].updated

\* C1: a hotel with no prior history (in no log entry, not in the loaded
\* snapshot) that a run observes lands in the 'new' section and in no other.
C1_NoHistoryIsNew ==
    pc = "save" =>
        \A c \in Codes :
            (/\ has_code(hotels_snapshot, c)
             /\ get_all_time_low(log_file, c, NoDate) = <<>>
             /\ c \notin DOMAIN load_history(history_file))
            => sections_of(msgs, c) = {"new"}

\* C2: for a hotel with history, a price equal to the historical low
\* (excluding today) is UNCHANGED and not flagged as a record low; a price one
\* unit below it is a record low reported with delta 1.
C2_RecordLowBoundary ==
    pc = "save" =>
        \A c \in Codes :
            has_code(hotels_snapshot, c) =>
                LET low == get_all_time_low(log_file, c, run_date)
                    p == observed_price(hotels_snapshot, c)
                IN  low # <<>> =>
                        /\ p = low[1].price =>
                               /\ sections_of(msgs, c) = {"same"}
                               /\ ~flagged_record_low(msgs, c)
                        /\ p = low[1].price - 1 =>
                               /\ sections_of(msgs, c) = {"drop"}
                               /\ flagged_record_low(msgs, c)
                               /\ reported_delta(msgs, c) = {1}

\* C3: two stored states that give a hotel the same all-time-low excluding
\* today, and differ in the price the previous run recorded for it, give the
\* same observed price the same category.
C3_CategoryIgnoresPreviousPrice ==
    pc = "observed" =>
        \A c \in Codes :
            (/\ has_code(hotels_snapshot, c)
             /\ c \in DOMAIN load_history(history_file)
             /\ c \in DOMAIN load_history(history_fileB)
             /\ load_history(history_file)[c].price # load_history(history_fileB)[c].price
             /\ get_all_time_low(log_file, c, run_date)
                    = get_all_time_low(log_fileB, c, run_date))
            => /\ sections_of(msgs, c) = sections_of(msgsB, c)
               /\ flagged_record_low(msgs, c) = flagged_record_low(msgsB, c)

\* the entries a query with exclude_date ex considers for a code
candidates(logs, code, ex) ==
    {i \in 1..Len(logs) : (ex = NoDate \/ logs[i].date # ex) /\ has_code(logs[i].hotels, code)}

prices_in(entry, code) ==
    {entry.hotels[j].price : j \in {n \in 1..Len(entry.hotels) : entry.hotels[n].code = code}}

lowest_price(logs, code, ex) ==
    LET ps == UNION {prices_in(logs[i], code) : i \in candidates(logs, code, ex)}
    IN  CHOOSE p \in ps : \A q \in ps : p <= q

first_with_price(logs, code, ex, p) ==
    LET at == {i \in candidates(logs, code, ex) : p \in prices_in(logs[i], code)}
    IN  CHOOSE i \in at : \A k \in at : i <= k

QueryDates == Days \cup {NoDate}

\* C4: get_all_time_low returns the minimum price of the code over all the
\* entries not dated exclude_date, with the date of the first entry in
\* storage order that has that price.
C4_AllTimeLowIsFirstMinimum ==
    \A c \in Codes : \A ex \in QueryDates :
        LET logs == load_logs(log_file, NoDays)
        IN  candidates(logs, c, ex) # {} =>
                LET m == lowest_price(logs, c, ex)
                IN  get_all_time_low(log_file, c, ex)
                        = <<[price |-> m, date |-> logs[first_with_price(logs, c, ex, m)].date]>>

\* two entries of different dates tie on the minimum and the query names the
\* earlier one; excluding that date, it names the later one
C4_Witness ==
    LET logs == load_logs(log_file, NoDays)
    IN  /\ Len(logs) = 2
        /\ logs[1].date # logs[2].date
        /\ prices_in(logs[1], "x") # {}
        /\ prices_in(logs[1], "x") = prices_in(logs[2], "x")
        /\ get_all_time_low(log_file, "x", NoDate) # <<>>
        /\ get_all_time_low(log_file, "x", NoDate)[1].date = logs[1].date
        /\ get_all_time_low(log_file, "x", logs[1].date) # <<>>
        /\ get_all_time_low(log_file, "x", logs[1].date)[1].date = logs[2].date

\* C5: get_all_time_low returns None exactly when no entry with a date other
\* than exclude_date holds an observation of the code.
C5_NoneIffNoObservation ==
    \A c \in Codes : \A ex \in QueryDates :
        (get_all_time_low(log_file, c, ex) = <<>>)
            <=> (candidates(load_logs(log_file, NoDays), c, ex) = {})

\* None although the code is in the log: every entry that has it is excluded,
\* and an entry that is not excluded has only the other hotel
C5_Witness ==
    \E ex \in Days :
        LET logs == load_logs(log_file, NoDays)
        IN  /\ get_all_time_low(log_file, "x", ex) = <<>>
            /\ get_all_time_low(log_file, "x", NoDate) # <<>>
            /\ \E i \in 1..Len(logs) : logs[i].date # ex

\* what a query result becomes once one more observation is taken in
with_observation(best, hotels, code, day) ==
    IF /\ has_code(hotels, code)
       /\ (best = <<>> \/ observed_price(hotels, code) < best[1].price)
    THEN <<[price |-> observed_price(hotels, code), date |-> day]>>
    ELSE best

\* C6: an append on day D leaves get_all_time_low(code, exclude_date=D) as it
\* was; queries that exclude another date (or none) see the day's price.
C6_AppendHiddenFromTodaysQuery ==
    [][log_file' # log_file =>
          \A c \in Codes :
              /\ get_all_time_low(log_file', c, today)
                     = get_all_time_low(log_file, c, today)
              /\ \A ex \in QueryDates \ {today} :
                     get_all_time_low(log_file', c, ex)
                         = with_observation(get_all_time_low(log_file, c, ex),
                               log_file'[Len(log_file')].doc.hotels, c, today)]_vars

\* the last entry is a new low that the query excluding its date does not see
C6_Witness ==
    /\ Len(log_file) >= 2
    /\ LET d == log_file[Len(log_file)].doc.date
       IN  /\ get_all_time_low(log_file, "x", d) # <<>>
           /\ get_all_time_low(log_file, "x", NoDate) # <<>>
           /\ get_all_time_low(log_file, "x", NoDate)[1].price
                  < get_all_time_low(log_file, "x", d)[1].price
           /\ get_all_time_low(log_file, "x", NoDate)[1].date = d

\* C7: one append_log makes load_logs() one entry longer, the new entry last,
\* the entries read before unchanged and in the same order.
C7_AppendOnly ==
    [][log_file' # log_file =>
          LET before == load_logs(log_file, NoDays)
              after == load_logs(log_file', NoDays)
          IN  /\ Len(after) = Len(before) + 1
              /\ SubSeq(after, 1, Len(before)) = before
              /\ after[Len(after)].date = today]_vars

\* two appends, and the two entries read back differ
C7_Witness ==
    LET logs == load_logs(log_file, NoDays)
    IN  /\ Len(logs) = 2
        /\ logs[1] # logs[2]

\* the entries of the parseable lines of a file, in file order
parseable_entries(file) ==
    LET ok == SelectSeq(file, json_parses)
    IN  [i \in 1..Len(ok) |-> json_loads(ok[i])]

\* C8: load_logs skips an unparseable line and still returns every parseable
\* entry in append order.
C8_SkipsOnlyUnparseable ==
    pc = "read" => logs_read = parseable_entries(log_file)

\* C9: whenever the snapshot holds a run's data, the log already holds
\* that run's entry (the log is appended before the snapshot is overwritten).
C9_LogBeforeSnapshot ==
    LET h == load_history(history_file)
        logs == load_logs(log_file, NoDays)
    IN  DOMAIN h # {} =>
            \E i \in 1..Len(logs) :
                /\ \A c \in Codes : c \in DOMAIN h <=> has_code(logs[i].hotels, c)
                /\ \A c \in DOMAIN h : h[c].price = observed_price(logs[i].hotels, c)

\* C10: after a completed run the snapshot's all_time_low of every hotel the
\* run observed is the minimum price of that hotel over the whole log.
C10_SnapshotLowIsLogMinimum ==
    pc = "send" =>
        \A c \in Codes :
            has_code(hotels_snapshot, c) =>
                load_history(history_file)[c].all_time_low
                    = lowest_price(load_logs(log_file, NoDays), c, NoDate)

\* the run in progress is one whose primary scrape returned nothing
empty_scrape_run == pc # "d_idle" /\ fetch_maxfhr(scraped) = <<>>

\* C11: when fetch_maxfhr returns an empty list the run ends without
\* changing the snapshot file or the log file: no step of such a run, from the
\* scrape to the end of the process, writes either store.
C11_EmptyScrapeLeavesStores ==
    [][(empty_scrape_run \/ (pc' # "d_idle" /\ fetch_maxfhr(scraped') = <<>>))
          => (history_file' = history_file /\ log_file' = log_file)]_vars

\* a run with an empty scrape has ended, after an earlier run filled both stores
C11_Witness ==
    /\ pc = "d_done"
    /\ scraped = <<>>
    /\ history_file # MissingFile
    /\ log_file # <<>>

\* C12 as stated: after an empty scrape the failure notice has been handed to
\* the notifier for the selected destination, whatever the target is, and
\* nothing else has.
C12_NoticeForEveryTarget ==
    (pc = "d_done" /\ scraped = <<>>) =>
        /\ Len(calls) = 1
        /\ calls[1].kind = "notice"
        /\ calls[1].to = chat_id(target)

\* C12, amended: after an empty scrape the failure notice is handed to the
\* notifier once, for the personal chat, when the target is not the channel;
\* with the channel as target nothing is sent; a price report is never sent.
C12_NoticeUnlessChannel ==
    (pc = "d_done" /\ scraped = <<>>) =>
        /\ target = "channel" => calls = <<>>
        /\ target # "channel" =>
              /\ Len(calls) = 1
              /\ calls[1].kind = "notice"
              /\ calls[1].to = "personal_id"
        /\ \A k \in 1..Len(calls) : calls[k].kind # "report"

\* an empty scrape with a target that is neither spelling of the two names
C12_Witness ==
    /\ pc = "d_done"
    /\ scraped = <<>>
    /\ target = "other"
    /\ Len(calls) = 1

\* the price of the first card of the scrape that carries the code
first_card_price(cards, code) ==
    cards[CHOOSE j \in 1..Len(cards) :
              /\ cards[j].code = code
              /\ \A i \in 1..(j - 1) : cards[i].code # code].price

occurrences(hotels, code) == Cardinality({k \in 1..Len(hotels) : hotels[k].code = code})

\* C13: every log entry holds at most one observation per hotel code, and
\* once a run has written both stores, the entry it appended and the snapshot
\* it saved hold, for every code of the scrape, the first card with that code.
C13_FirstOccurrenceKept ==
    /\ \A i \in 1..Len(log_file) : \A c \in Codes :
           occurrences(json_loads(log_file[i]).hotels, c) <= 1
    /\ (pc \in {"d_assemble", "d_send", "d_done"} /\ scraped # <<>>) =>
           LET entry == json_loads(log_file[Len(log_file)]).hotels
               snap == load_history(history_file)
           IN  \A c \in Codes :
                   IF has_code(scraped, c)
                   THEN /\ occurrences(entry, c) = 1
                        /\ observed_price(entry, c) = first_card_price(scraped, c)
                        /\ c \in DOMAIN snap
                        /\ snap[c].price = first_card_price(scraped, c)
                   ELSE /\ occurrences(entry, c) = 0
                        /\ c \notin DOMAIN snap

\* both stores written from a scrape of two cards with one code and two prices
C13_Witness ==
    /\ pc = "d_assemble"
    /\ Len(scraped) = 2
    /\ scraped[1].code = scraped[2].code
    /\ scraped[1].price # scraped[2].price

\* ceil(n / ChunkSize)
pieces_needed(n) == (n + ChunkSize - 1) \div ChunkSize

\* C15: a report of n characters is split into ceil(n / 4000) pieces, none
\* empty, none longer than 4000 characters, which follow one another without
\* gap or overlap from the first character to the last.
C15_SplitCoversPayload ==
    pc = "split" =>
        /\ Len(chunks) = pieces_needed(final_len)
        /\ chunks[1].from = 0
        /\ chunks[Len(chunks)].to = final_len
        /\ \A k \in 1..Len(chunks) :
               /\ chunks[k].from < chunks[k].to
               /\ chunks[k].to - chunks[k].from <= ChunkSize
        /\ \A k \in 1..(Len(chunks) - 1) : chunks[k].to = chunks[k + 1].from

\* a report of 9000 characters in three pieces
C15_Witness ==
    /\ pc = "split"
    /\ final_len = 9000
    /\ Len(chunks) = 3

DisplayOrder == <<"drop", "new", "rise", "same">>

\* the categories that have items, in display order
shown_sections(m) ==
    LET has_items(s) == m[s] # <<>>
    IN  SelectSeq(DisplayOrder, has_items)

\* C16: the report is the header followed by one section for every category
\* that has items and none for an empty one, in the order drop (record low),
\* new, rise, unchanged; a section carries its title, the number of its items
\* and the items.
C16_SectionsOfNonEmptyCategories ==
    pc = "assembled" =>
        LET shown == shown_sections(msgs)
        IN  /\ Len(final_msg) = 1 + Len(shown)
            /\ final_msg[1] = Header
            /\ \A k \in 1..Len(shown) :
                   /\ final_msg[k + 1].title = shown[k]
                   /\ final_msg[k + 1].count = Len(msgs[shown[k]])
                   /\ final_msg[k + 1].items = msgs[shown[k]]

\* a report with a rise section only
C16_Witness ==
    /\ pc = "assembled"
    /\ msgs.rise # <<>>
    /\ msgs.drop = <<>>
    /\ msgs.new = <<>>
    /\ msgs.same = <<>>
    /\ Len(final_msg) = 2

\* C17: when a run that sends a report has ended, the notifier has been
\* called once for every chunk of the report, in chunk order, whether or not
\* a delivery failed.
C17_EveryChunkAttemptedOnce ==
    (pc = "d_done" /\ final_len > 0) =>
        [k \in 1..Len(calls) |-> calls[k].part] = chunks_of(final_len)

\* C18: when a report chunk is handed to the notifier, the snapshot file
\* holds the run's mapping and the log ends with the run's entry, and the
\* call leaves both files as they are, whether or not the delivery fails.
C18_PersistedBeforeReport ==
    [][(calls' # calls /\ calls' # <<>> /\ calls'[Len(calls')].kind = "report")
          => /\ load_history(history_file) = new_history
             /\ log_file # <<>>
             /\ json_loads(log_file[Len(log_file)]) = log_entry(hotels_snapshot, today)
             /\ history_file' = history_file
             /\ log_file' = log_file]_vars

\* the first chunk of a report failed to be delivered and the run ended
C18_Witness ==
    /\ pc = "d_done"
    /\ Len(calls) = 1
    /\ calls[1].kind = "report"
    /\ ~calls[1].ok
    /\ load_history(history_file) = new_history
    /\ log_file # <<>>

\* C14: when save_history is cut short, at whatever point of the write,
\* load_history returns afterwards the mapping it returned before the save.
C14_InterruptedSaveKeepsSnapshot ==
    [][pc' = "s_cut" => load_history(history_file') = load_history(history_file)]_vars

\* the last min(n, Len(s)) elements of s
last_n(s, n) == SubSeq(s, Len(s) - Min(n, Len(s)) + 1, Len(s))

\* C20: load_logs(days=N) returns the last min(N, total) entries of the log
\* in append order, and get_price_history_for_hotel(code, days=N) the last
\* min(N, total) records of the hotel, for every N >= 0; days=None gives all.
C20_LastNEntries ==
    pc = "days_read" =>
        LET all == load_logs(log_file, NoDays)
        IN  \A c \in Codes :
                LET records == history_scan(all, 1, c)
                IN  IF days_arg = NoDays
                    THEN logs_read = all /\ hist_read[c] = records
                    ELSE /\ logs_read = last_n(all, days_arg)
                         /\ hist_read[c] = last_n(records, days_arg)

\* C19: when two overlapping runs have both written the stores, the log holds
\* one whole entry for each of them and the snapshot file holds the complete
\* mapping of one of the two.
C19_TwoEntriesOneSnapshot ==
    (pc = "t_done" /\ pcB = "t_done") =>
        /\ Len(log_file) = 2
        /\ \A i \in 1..2 : json_parses(log_file[i])
        /\ {json_loads(log_file[1]), json_loads(log_file[2])}
               = {log_entry(hotels_snapshot, today), log_entry(hotels_snapshotB, today)}
        /\ history_file \in {save_history(new_history), save_history(new_historyB)}

====
